---- MODULE Spec2Model ----
(***************************************************************************)
(* Model of update_leaderboard_data.py: the fetch / extract / merge        *)
(* pipeline that refreshes the leaderboard JSON files.                     *)
(*                                                                         *)
(* Data representation                                                     *)
(*   float      a record [k, v]: k = "fin" (value v), "inf", "ninf", "nan" *)
(*              FloatMax stands for the largest finite double; rounding is *)
(*              monotone and is not modelled, overflow is.                 *)
(*   dict       a sequence of [k, v] pairs with distinct keys, in          *)
(*              insertion order (the order json.dump writes)               *)
(*   html page  [table, rows]: whether the text contains "<table", and the *)
(*              <tr>...</tr> fragments in page order                       *)
(*   row        [ncells, anchor, title, score]: number of <td> fragments,  *)
(*              whether an <a ... title=...> is present, the raw title     *)
(*              characters, and the content of the fourth cell as lexemes  *)
(*   lexeme     [k, v]: k = "num" (a numeric token of value v), "word"     *)
(*              (text without digits) or "tag" (markup, v = a digit inside *)
(*              the markup)                                                *)
(***************************************************************************)
EXTENDS Integers, Sequences, FiniteSets, TLC

\* ------------------------------------------------------------------ bounds
MaxCats == 2
RunCats == 1
MaxRows == 2
MaxRetries == 4
FloatMax == 2

Min(a, b) == IF a < b THEN a ELSE b

\* ------------------------------------------------------------------ floats
Fin(n) == [k |-> "fin", v |-> n]
Inf == [k |-> "inf", v |-> 0]
NInf == [k |-> "ninf", v |-> 0]
NaN == [k |-> "nan", v |-> 0]

\* float(numbers[i].replace(",", "")): a digit string beyond the double range
\* converts to inf
float(n) == IF n > FloatMax THEN Inf ELSE Fin(n)

FNeg(a) ==
  CASE a.k = "fin" -> Fin(0 - a.v)
    [] a.k = "inf" -> NInf
    [] a.k = "ninf" -> Inf
    [] OTHER -> NaN

FAdd(a, b) ==
  CASE a.k = "nan" \/ b.k = "nan" -> NaN
    [] a.k = "inf" -> IF b.k = "ninf" THEN NaN ELSE Inf
    [] a.k = "ninf" -> IF b.k = "inf" THEN NaN ELSE NInf
    [] b.k = "inf" -> Inf
    [] b.k = "ninf" -> NInf
    [] OTHER -> IF a.v + b.v > FloatMax THEN Inf
                ELSE IF a.v + b.v < 0 - FloatMax THEN NInf
                ELSE Fin(a.v + b.v)

FSub(a, b) == FAdd(a, FNeg(b))

\* a <= b on floats: every comparison with nan is false
FLeq(a, b) ==
  CASE a.k = "nan" \/ b.k = "nan" -> FALSE
    [] a.k = "ninf" -> TRUE
    [] b.k = "inf" -> TRUE
    [] a.k = "inf" -> FALSE
    [] b.k = "ninf" -> FALSE
    [] OTHER -> a.v <= b.v

\* ------------------------------------------------------------------- dicts
EmptyDict == <<>>

DictKeys(d) == {d[i].k : i \in 1..Len(d)}

DictHas(d, key) == key \in DictKeys(d)

DictGet(d, key) == d[CHOOSE i \in 1..Len(d) : d[i].k = key].v

DictSet_keepfirst(d, key, value) ==
  IF DictHas(d, key) THEN d ELSE Append(d, [k |-> key, v |-> value])

\* d[key] = value: an existing key keeps its position, a new key is appended
DictSet(d, key, value) ==
  IF DictHas(d, key)
  THEN [i \in 1..Len(d) |-> IF d[i].k = key THEN [k |-> key, v |-> value] ELSE d[i]]
  ELSE Append(d, [k |-> key, v |-> value])

\* --------------------------------------------------------------- extraction
\* re.sub(r"<[^>]+>", " ", text) followed by whitespace collapsing: the markup
\* lexemes disappear, the text between them stays
strip_tags(cell) == SelectSeq(cell, LAMBDA x : x.k # "tag")

\* re.findall(r"\d+(?:,\d{3})*(?:\.\d+)?", cell_text)
findall_numbers(cell_text) == SelectSeq(cell_text, LAMBDA x : x.k = "num")

parse_rating_cell_skip(cell_text) ==
  LET numbers == findall_numbers(cell_text)
  IN  IF numbers = <<>>
      THEN [raised |-> FALSE, rating |-> Fin(0), uncertainty |-> Fin(0)]
      ELSE [raised |-> FALSE,
            rating |-> float(numbers[1].v),
            uncertainty |-> IF Len(numbers) > 1 THEN float(numbers[2].v) ELSE Fin(0)]

parse_rating_cell(cell_text) ==
  LET numbers == findall_numbers(cell_text)
  IN  IF numbers = <<>>
      THEN [raised |-> TRUE, rating |-> Fin(0), uncertainty |-> Fin(0)]
      ELSE [raised |-> FALSE,
            rating |-> float(numbers[1].v),
            uncertainty |-> IF Len(numbers) > 1 THEN float(numbers[2].v) ELSE Fin(0)]

\* html.unescape on the title characters: a character reference is decoded
unescape(title) == [i \in 1..Len(title) |-> IF title[i] = "&#32;" THEN " " ELSE title[i]]

RECURSIVE lstrip(_)
lstrip(s) == IF s # <<>> /\ Head(s) = " " THEN lstrip(Tail(s)) ELSE s

RECURSIVE rstrip(_)
rstrip(s) == IF s # <<>> /\ s[Len(s)] = " " THEN rstrip(SubSeq(s, 1, Len(s) - 1)) ELSE s

\* str.strip()
strip(s) == rstrip(lstrip(s))

\* the row passes the three `continue` tests of the loop body
Accepted(row) ==
  /\ row.ncells >= 4
  /\ row.anchor
  /\ strip(unescape(row.title)) # <<>>

model_name(row) == strip(unescape(row.title))

ScoreRecord(rating, uncertainty) ==
  [rating |-> rating,
   rating_q975 |-> FAdd(rating, uncertainty),
   rating_q025 |-> FSub(rating, uncertainty)]

\* the loop of parse_leaderboard_table over rows[i..], with `parsed` so far;
\* a ValueError of parse_rating_cell leaves the loop at once
RECURSIVE parse_rows(_, _, _)
parse_rows(rows, i, parsed) ==
  IF i > Len(rows) THEN [raised |-> "none", value |-> parsed]
  ELSE IF ~Accepted(rows[i]) THEN parse_rows(rows, i + 1, parsed)
  ELSE LET r == parse_rating_cell(strip_tags(rows[i].score))
       IN  IF r.raised
           THEN [raised |-> "ValueError", value |-> EmptyDict]
           ELSE parse_rows(rows, i + 1,
                           DictSet(parsed, model_name(rows[i]),
                                   ScoreRecord(r.rating, r.uncertainty)))

parse_leaderboard_table_noempty(html) == parse_rows(html.rows, 1, EmptyDict)

parse_leaderboard_table(html) ==
  LET r == parse_rows(html.rows, 1, EmptyDict)
  IN  IF r.raised # "none" THEN r
      ELSE IF r.value = EmptyDict
           THEN [raised |-> "RuntimeError", value |-> EmptyDict]
           ELSE r

\* ------------------------------------------------------------ input domains
RECURSIVE SeqsUpTo(_, _)
SeqsUpTo(S, n) ==
  IF n = 0 THEN {<<>>}
  ELSE LET shorter == SeqsUpTo(S, n - 1)
       IN  shorter \cup {Append(s, x) : s \in shorter, x \in S}

Num(n) == [k |-> "num", v |-> n]
Word == [k |-> "word", v |-> 0]
Tag(n) == [k |-> "tag", v |-> n]

\* a digit string too long for a double
Huge == FloatMax + 1

\* fourth-cell contents: "1", "2 +- 1", "1 2 1", a digit only inside markup,
\* text only, empty, and cells with out-of-range digit strings
ScoreCells ==
  { <<Num(1)>>, <<Num(2), Word, Num(1)>>, <<Tag(1), Num(1), Num(2), Num(1)>>,
    <<Tag(1), Word>>, <<Word>>, <<>>,
    <<Num(Huge)>>, <<Num(1), Num(Huge)>>, <<Num(Huge), Word, Num(Huge)>> }

GoodTitles == { <<"a">>, <<" ", "a">>, <<"b">> }
BlankTitles == { <<"&#32;">>, <<>> }

Row(n, anchor, title, score) ==
  [ncells |-> n, anchor |-> anchor, title |-> title, score |-> score]

Rows ==
  { Row(4, TRUE, t, c) : t \in GoodTitles, c \in ScoreCells }
  \cup { Row(4, TRUE, t, <<Word>>) : t \in BlankTitles }
  \cup { Row(3, TRUE, <<"a">>, <<>>), Row(4, FALSE, <<>>, <<Word>>) }

Html(table, rows) == [type |-> "html", table |-> table, rows |-> rows, doc |-> <<>>]
Json(doc) == [type |-> "json", table |-> FALSE, rows |-> <<>>, doc |-> doc]
GarbageText == [type |-> "text", table |-> FALSE, rows |-> <<>>, doc |-> <<>>]
NoBody == [type |-> "none", table |-> FALSE, rows |-> <<>>, doc |-> <<>>]

Pages == { Html(TRUE, rs) : rs \in SeqsUpTo(Rows, MaxRows) }

\* ------------------------------------------------------------ configuration
ARENA_BASE_URL == "https://arena.ai"
CATALOG_BASE_URL == "https://raw.githubusercontent.com/lmarena/arena-catalog/main/data"

DefaultRetries == 3
CatalogRetries == 2
BaseDelayTenths == 12

TEXT_CATEGORY_SLUGS ==
  << <<"chinese", "chinese">>, <<"coding", "coding">>,
     <<"creative_writing", "creative-writing">>, <<"english", "english">>,
     <<"expert", "expert">>, <<"french", "french">>, <<"full", "overall">>,
     <<"german", "german">>, <<"hard_6", "hard-prompts">>,
     <<"hard_english_6", "hard-prompts-english">>, <<"if", "instruction-following">>,
     <<"industry_business_and_management_and_financial_operations",
       "industry-business-and-management-and-financial-operations">>,
     <<"industry_entertainment_and_sports_and_media",
       "industry-entertainment-and-sports-and-media">>,
     <<"industry_legal_and_government", "industry-legal-and-government">>,
     <<"industry_life_and_physical_and_social_science",
       "industry-life-and-physical-and-social-science">>,
     <<"industry_mathematical", "industry-mathematical">>,
     <<"industry_medicine_and_healthcare", "industry-medicine-and-healthcare">>,
     <<"industry_software_and_it_services", "industry-software-and-it-services">>,
     <<"industry_writing_and_literature_and_language",
       "industry-writing-and-literature-and-language">>,
     <<"japanese", "japanese">>, <<"korean", "korean">>, <<"long_user", "longer-query">>,
     <<"math", "math">>, <<"multiturn", "multi-turn">>, <<"no_tie", "exclude-ties">>,
     <<"russian", "russian">>, <<"spanish", "spanish">> >>

VISION_CATEGORY_SLUGS ==
  << <<"captioning", "captioning">>, <<"chinese", "chinese">>,
     <<"creative_writing_vision", "creative-writing">>, <<"diagram", "diagram">>,
     <<"english", "english">>, <<"entity_recognition", "entity-recognition">>,
     <<"full", "overall">>, <<"homework", "homework">>, <<"humor", "humor">>,
     <<"ocr", "ocr">> >>

IMAGE_CATEGORY_SLUGS == << <<"full", "overall">> >>

\* the first n entries of a category table, in the table's iteration order
FirstItems(table, n) == SubSeq(table, 1, Min(n, Len(table)))

FileSpec(filename, modality, category_map, style_control) ==
  [filename |-> filename, modality |-> modality,
   category_map |-> category_map, style_control |-> style_control]

\* FILE_SPECS, every category table cut to its first n entries
FILE_SPECS(n) ==
  << FileSpec("leaderboard-text.json", "text", FirstItems(TEXT_CATEGORY_SLUGS, n), "False"),
     FileSpec("leaderboard-text-style-control.json", "text",
              FirstItems(TEXT_CATEGORY_SLUGS, n), "True"),
     FileSpec("leaderboard-vision.json", "vision", FirstItems(VISION_CATEGORY_SLUGS, n), "False"),
     FileSpec("leaderboard-vision-style-control.json", "vision",
              FirstItems(VISION_CATEGORY_SLUGS, n), "True"),
     FileSpec("leaderboard-image.json", "text-to-image",
              FirstItems(IMAGE_CATEGORY_SLUGS, n), "None") >>

FileNames == {FILE_SPECS(0)[i].filename : i \in 1..Len(FILE_SPECS(0))}

build_leaderboard_path(modality, category_slug, style_control) ==
  IF style_control = "None" THEN <<"leaderboard", modality, category_slug, "">>
  ELSE IF style_control = "True" THEN <<"leaderboard", modality, category_slug, "">>
  ELSE <<"leaderboard", modality, category_slug, "-no-style-control">>

ArenaUrl(path) == <<ARENA_BASE_URL>> \o path
CatalogUrl(filename) == <<CATALOG_BASE_URL, filename, "", "", "">>

\* ------------------------------------------------------------- persistence
ZeroRecord == ScoreRecord(Fin(0), Fin(0))

Line(t, key, name, rec) == [t |-> t, key |-> key, name |-> name, rec |-> rec]

RECURSIVE dump_items(_, _, _)
dump_items(key, mapping, i) ==
  IF i > Len(mapping) THEN <<>>
  ELSE <<Line("item", key, mapping[i].k, mapping[i].v)>> \o dump_items(key, mapping, i + 1)

RECURSIVE dump_keys(_, _)
dump_keys(data, i) ==
  IF i > Len(data) THEN <<>>
  ELSE <<Line("key", data[i].k, <<>>, ZeroRecord)>>
       \o dump_items(data[i].k, data[i].v, 1) \o dump_keys(data, i + 1)

\* json.dump(data, file, indent=4): the text, one line per key and per record
json_dump(data) ==
  <<Line("{", "", <<>>, ZeroRecord)>> \o dump_keys(data, 1) \o <<Line("}", "", <<>>, ZeroRecord)>>

RECURSIVE load_lines(_, _, _)
load_lines(text, i, doc) ==
  IF i >= Len(text) THEN doc
  ELSE IF text[i].t = "key"
       THEN load_lines(text, i + 1, DictSet(doc, text[i].key, EmptyDict))
       ELSE load_lines(text, i + 1,
                       DictSet(doc, text[i].key,
                               DictSet(DictGet(doc, text[i].key), text[i].name, text[i].rec)))

\* json.load: one object, nothing before or after it
json_load(text) ==
  IF /\ Len(text) >= 2
     /\ text[1].t = "{"
     /\ text[Len(text)].t = "}"
     /\ \A i \in 2..(Len(text) - 1) : text[i].t \in {"key", "item"}
  THEN [ok |-> TRUE, doc |-> load_lines(text, 2, EmptyDict)]
  ELSE [ok |-> FALSE, doc |-> EmptyDict]

NoFile == [exists |-> FALSE, content |-> <<>>]

write_json_append(files, path, data) ==
  [files EXCEPT ![path] = [exists |-> TRUE, content |-> files[path].content \o json_dump(data)]]

\* open(path, "w") truncates, json.dump writes the document
write_json(files, path, data) ==
  [files EXCEPT ![path] = [exists |-> TRUE, content |-> json_dump(data)]]

\* ---------------------------------------------------------------- documents
OldEntry == <<[k |-> <<"z">>, v |-> ScoreRecord(Fin(1), Fin(0))]>>
BaseEntry == <<[k |-> <<"y">>, v |-> ScoreRecord(Fin(2), Fin(1))]>>

RECURSIVE DocOf(_, _, _, _)
DocOf(category_map, present, entry, i) ==
  IF i > Len(category_map) THEN <<>>
  ELSE (IF category_map[i][1] \in present
        THEN <<[k |-> category_map[i][1], v |-> entry]>> ELSE <<>>)
       \o DocOf(category_map, present, entry, i + 1)

TableKeys(category_map) == {category_map[i][1] : i \in 1..Len(category_map)}

\* documents a data file may hold before a refresh: a key outside the category
\* table, then any subset of the table's keys
InitDocs(category_map) ==
  { <<[k |-> "legacy", v |-> OldEntry]>> \o DocOf(category_map, present, OldEntry, 1) :
      present \in SUBSET TableKeys(category_map) }

\* the baseline document of the catalog repository
CatalogDoc(category_map) == DocOf(category_map, TableKeys(category_map), BaseEntry, 1)

\* -------------------------------------------------------------------- state
VARIABLES
  site,         \* the html pages the ranking site may serve
  faults,       \* the ways a request may fail
  specs,        \* FILE_SPECS as the run sees it
  remote,       \* the outcome each URL has shown so far: the source does not change
  wire,         \* what the last urlopen call met on the network
  fs,           \* data_dir: file name -> [exists, content]
  run,          \* 1 or 2: which invocation of update_all_files
  persisted1,   \* data_dir as the first invocation left it
  stdout,       \* the lines printed
  sources,      \* where each document of this run was loaded from
  pc,           \* position in the program
  fi,           \* index into FILE_SPECS of the file in hand
  target_data,  \* base_data / target_data: the document in memory
  before,       \* the document as refresh_categories received it
  ci,           \* index into category_map of the category in hand
  updated,
  skipped,
  all_skipped,
  url, retries, caller,   \* the arguments of the http_get_text call and who called
  attempt,      \* the loop variable of http_get_text
  calls,        \* urlopen calls made by this http_get_text call
  last_error,
  sleeps,       \* the arguments of time.sleep in this call, in tenths of a second
  body,         \* the text http_get_text returned
  exc,          \* the exception in flight
  extracted     \* the result of parse_leaderboard_table on its own

envVars == <<site, faults, specs>>
fetchVars == <<url, retries, caller, attempt, calls, last_error, sleeps, wire, body, exc>>
loopVars == <<target_data, ci, updated, skipped>>
runVars == <<fs, run, persisted1, stdout, sources, fi, all_skipped, before>>
vars == <<envVars, fetchVars, loopVars, runVars, remote, pc, extracted>>

NoError == [type |-> "None", status |-> 0]
NoUrl == <<"", "", "", "", "">>
Exc(type, msg, n, u, cause) == [type |-> type, msg |-> msg, retries |-> n, url |-> u, cause |-> cause]
NoExc == Exc("None", "", 0, NoUrl, NoError)
NoWire == [kind |-> "none", status |-> 0, body |-> NoBody]
NoResult == [raised |-> "pending", value |-> EmptyDict]

\* str(exc): the message, without the exception's type
Str(e) == [msg |-> e.msg, retries |-> e.retries, url |-> e.url, cause |-> e.cause]

CategoryMap == specs[fi].category_map
OutputKey == CategoryMap[ci][1]
CategorySlug == CategoryMap[ci][2]

SpecOfFile(filename) == specs[CHOOSE i \in 1..Len(specs) : specs[i].filename = filename]

\* ------------------------------------------------------------------ network
AllFaults == {"HTTPError", "URLError", "TimeoutError", "IncompleteRead"}

\* what a URL may answer with
Served(u) ==
  IF u[1] = CATALOG_BASE_URL
  THEN {Json(CatalogDoc(SpecOfFile(u[2]).category_map)), GarbageText}
  ELSE site

\* what one request may meet: a completed response (any status once the site
\* may answer with an error status), or a failure below HTTP
Network(u) ==
  { [kind |-> "response", status |-> st, body |-> b] :
      st \in (IF "HTTPError" \in faults THEN {200, 404} ELSE {200}), b \in Served(u) }
  \cup { [kind |-> f, status |-> 0, body |-> NoBody] : f \in faults \ {"HTTPError"} }

urlopen_lenient(ev) ==
  IF ev.kind = "response"
  THEN [ret |-> "return", body |-> ev.body, err |-> NoError]
  ELSE [ret |-> "raise", body |-> NoBody, err |-> [type |-> ev.kind, status |-> 0]]

\* urlopen(...) then response.read().decode(): a response outside 2xx is raised
\* as HTTPError by the opener
urlopen(ev) ==
  IF ev.kind = "response"
  THEN IF 200 <= ev.status /\ ev.status < 300
       THEN [ret |-> "return", body |-> ev.body, err |-> NoError]
       ELSE [ret |-> "raise", body |-> NoBody, err |-> [type |-> "HTTPError", status |-> ev.status]]
  ELSE [ret |-> "raise", body |-> NoBody, err |-> [type |-> ev.kind, status |-> 0]]

\* except (HTTPError, URLError, TimeoutError)
Caught(err) == err.type \in {"HTTPError", "URLError", "TimeoutError"}

SleepDelay_unshifted(a) == BaseDelayTenths * a

\* time.sleep(1.2 * (attempt + 1))
SleepDelay(a) == BaseDelayTenths * (a + 1)

RequestFailed(n, u, err) == Exc("RuntimeError", "Request failed after retries", n, u, err)

Outcome(u, ok, b, e) == [url |-> u, ok |-> ok, body |-> b, exc |-> e]

\* the source is unchanged: a URL seen before ends the same way again
Consistent(o) == \A r \in remote : r.url = o.url => r = o

\* a URL that has answered answers again at once: a request fails only at a
\* URL not seen yet, or at one that never answered
MayFail(u) == \A r \in remote : r.url = u => ~r.ok

\* --------------------------------------------------------- http_get_text
BeginFetch(u, n, who) ==
  /\ url' = u /\ retries' = n /\ caller' = who
  /\ attempt' = 0 /\ calls' = 0 /\ last_error' = NoError /\ sleeps' = <<>>
  /\ wire' = NoWire /\ body' = NoBody /\ exc' = NoExc
  /\ pc' = "fetch"

\* the call and the loop body are over: their locals are gone
PopFrame ==
  /\ url' = NoUrl /\ retries' = 0 /\ caller' = "none"
  /\ attempt' = 0 /\ calls' = 0 /\ last_error' = NoError /\ sleeps' = <<>>
  /\ wire' = NoWire /\ body' = NoBody /\ exc' = NoExc

AttemptReturn ==
  /\ pc = "fetch"
  /\ \E ev \in Network(url) :
       LET o == urlopen(ev) IN
       /\ o.ret = "return"
       /\ Consistent(Outcome(url, TRUE, o.body, NoExc))
       /\ remote' = remote \cup {Outcome(url, TRUE, o.body, NoExc)}
       /\ wire' = ev
       /\ calls' = calls + 1
       /\ body' = o.body
       /\ pc' = "got"
  /\ UNCHANGED <<envVars, loopVars, runVars, extracted>>
  /\ UNCHANGED <<url, retries, caller, attempt, last_error, sleeps, exc>>

AttemptRetry ==
  /\ pc = "fetch"
  /\ attempt < retries - 1
  /\ MayFail(url)
  /\ \E ev \in Network(url) :
       LET o == urlopen(ev) IN
       /\ o.ret = "raise" /\ Caught(o.err)
       /\ wire' = ev
       /\ last_error' = o.err
  /\ calls' = calls + 1
  /\ sleeps' = Append(sleeps, SleepDelay(attempt))
  /\ attempt' = attempt + 1
  /\ UNCHANGED <<envVars, loopVars, runVars, extracted, remote, pc>>
  /\ UNCHANGED <<url, retries, caller, body, exc>>

AttemptExhausted ==
  /\ pc = "fetch"
  /\ ~(attempt < retries - 1)
  /\ \E ev \in Network(url) :
       LET o == urlopen(ev) IN
       /\ o.ret = "raise" /\ Caught(o.err)
       /\ Consistent(Outcome(url, FALSE, NoBody, RequestFailed(retries, url, o.err)))
       /\ remote' = remote \cup {Outcome(url, FALSE, NoBody, RequestFailed(retries, url, o.err))}
       /\ wire' = ev
       /\ last_error' = o.err
       /\ exc' = RequestFailed(retries, url, o.err)
  /\ calls' = calls + 1
  /\ pc' = "raised"
  /\ UNCHANGED <<envVars, loopVars, runVars, extracted>>
  /\ UNCHANGED <<url, retries, caller, attempt, sleeps, body>>

AttemptUncaught ==
  /\ pc = "fetch"
  /\ \E ev \in Network(url) :
       LET o == urlopen(ev)
           e == Exc(o.err.type, "read failed", 0, NoUrl, NoError) IN
       /\ o.ret = "raise" /\ ~Caught(o.err)
       /\ Consistent(Outcome(url, FALSE, NoBody, e))
       /\ remote' = remote \cup {Outcome(url, FALSE, NoBody, e)}
       /\ wire' = ev
       /\ exc' = e
  /\ calls' = calls + 1
  /\ pc' = "raised"
  /\ UNCHANGED <<envVars, loopVars, runVars, extracted>>
  /\ UNCHANGED <<url, retries, caller, attempt, last_error, sleeps, body>>

http_get_text == AttemptReturn \/ AttemptRetry \/ AttemptExhausted \/ AttemptUncaught

\* ------------------------------------------------------ refresh_categories
NextCategory ==
  /\ pc = "loop"
  /\ ci <= Len(CategoryMap)
  /\ BeginFetch(ArenaUrl(build_leaderboard_path(specs[fi].modality, CategorySlug,
                                                specs[fi].style_control)),
                DefaultRetries, "refresh")
  /\ UNCHANGED <<envVars, loopVars, runVars, extracted, remote>>

\* the exception the body of the try raises on a fetched text, if any
RefreshError(html) ==
  IF ~html.table THEN Exc("RuntimeError", "No table in response", 0, NoUrl, NoError)
  ELSE LET r == parse_leaderboard_table(html) IN
       IF r.raised = "ValueError" THEN Exc("ValueError", "No rating number parsed", 0, NoUrl, NoError)
       ELSE IF r.raised = "RuntimeError"
            THEN Exc("RuntimeError", "Parsed 0 models from leaderboard table.", 0, NoUrl, NoError)
            ELSE NoExc

CategoryUpdated ==
  /\ pc = "got" /\ caller = "refresh"
  /\ RefreshError(body) = NoExc
  /\ target_data' = DictSet(target_data, OutputKey, parse_leaderboard_table(body).value)
  /\ updated' = Append(updated, OutputKey)
  /\ ci' = ci + 1
  /\ pc' = "loop"
  /\ PopFrame
  /\ UNCHANGED <<envVars, runVars, extracted, remote, skipped>>

CategorySkipped_clobber ==
  /\ pc = "got" /\ caller = "refresh"
  /\ RefreshError(body) # NoExc
  /\ target_data' = DictSet(target_data, OutputKey, EmptyDict)
  /\ skipped' = Append(skipped, [key |-> OutputKey, reason |-> Str(RefreshError(body))])
  /\ ci' = ci + 1
  /\ pc' = "loop"
  /\ PopFrame
  /\ UNCHANGED <<envVars, runVars, extracted, remote, updated>>

CategorySkipped ==
  /\ pc = "got" /\ caller = "refresh"
  /\ RefreshError(body) # NoExc
  /\ skipped' = Append(skipped, [key |-> OutputKey, reason |-> Str(RefreshError(body))])
  /\ ci' = ci + 1
  /\ pc' = "loop"
  /\ PopFrame
  /\ UNCHANGED <<envVars, runVars, extracted, remote, target_data, updated>>

CategoryFetchFailed_narrow ==
  /\ pc = "raised" /\ caller = "refresh"
  /\ exc.type = "RuntimeError"
  /\ skipped' = Append(skipped, [key |-> OutputKey, reason |-> Str(exc)])
  /\ ci' = ci + 1
  /\ pc' = "loop"
  /\ PopFrame
  /\ UNCHANGED <<envVars, runVars, extracted, remote, target_data, updated>>

CategoryFetchFailed_reraise ==
  /\ pc = "raised" /\ caller = "refresh"
  /\ pc' = "crashed"
  /\ UNCHANGED <<envVars, fetchVars, loopVars, runVars, extracted, remote>>

\* except Exception: whatever http_get_text raised
CategoryFetchFailed ==
  /\ pc = "raised" /\ caller = "refresh"
  /\ skipped' = Append(skipped, [key |-> OutputKey, reason |-> Str(exc)])
  /\ ci' = ci + 1
  /\ pc' = "loop"
  /\ PopFrame
  /\ UNCHANGED <<envVars, runVars, extracted, remote, target_data, updated>>

RefreshReturn ==
  /\ pc = "loop"
  /\ ci > Len(CategoryMap)
  /\ pc' = "returned"
  /\ UNCHANGED <<envVars, fetchVars, loopVars, runVars, extracted, remote>>

refresh_categories ==
  NextCategory \/ CategoryUpdated \/ CategorySkipped \/ CategoryFetchFailed \/ RefreshReturn

\* -------------------------------------------------------- update_all_files
FileName == specs[fi].filename

StartRefresh(doc, source) ==
  /\ target_data' = doc
  /\ before' = doc
  /\ sources' = Append(sources, source)
  /\ ci' = 1 /\ updated' = <<>> /\ skipped' = <<>>
  /\ pc' = "loop"

\* load_base_data, local_path.exists(): json.load(f), whose error nothing catches
LoadLocal ==
  /\ pc = "load"
  /\ fs[FileName].exists
  /\ LET r == json_load(fs[FileName].content) IN
       IF r.ok
       THEN StartRefresh(r.doc, "local") /\ UNCHANGED exc
       ELSE /\ pc' = "crashed"
            /\ exc' = Exc("JSONDecodeError", "local file", 0, NoUrl, NoError)
            /\ UNCHANGED <<loopVars, before, sources>>
  /\ UNCHANGED <<envVars, extracted, remote>>
  /\ UNCHANGED <<url, retries, caller, attempt, calls, last_error, sleeps, wire, body>>
  /\ UNCHANGED <<fs, run, persisted1, stdout, fi, all_skipped>>

\* load_base_data, no local file: fetch_catalog_json(filename)
LoadFallback ==
  /\ pc = "load"
  /\ ~fs[FileName].exists
  /\ BeginFetch(CatalogUrl(FileName), CatalogRetries, "catalog")
  /\ UNCHANGED <<envVars, loopVars, runVars, extracted, remote>>

\* json.loads(text) of the fetched baseline
CatalogLoaded ==
  /\ pc = "got" /\ caller = "catalog"
  /\ body.type = "json"
  /\ StartRefresh(body.doc, "catalog")
  /\ PopFrame
  /\ UNCHANGED <<envVars, extracted, remote>>
  /\ UNCHANGED <<fs, run, persisted1, stdout, fi, all_skipped>>

CatalogMalformed ==
  /\ pc = "got" /\ caller = "catalog"
  /\ body.type # "json"
  /\ pc' = "crashed"
  /\ exc' = Exc("JSONDecodeError", "catalog text", 0, NoUrl, NoError)
  /\ UNCHANGED <<envVars, loopVars, runVars, extracted, remote>>
  /\ UNCHANGED <<url, retries, caller, attempt, calls, last_error, sleeps, wire, body>>

\* the exception of http_get_text leaves fetch_catalog_json, load_base_data and
\* update_all_files: nothing catches it
CatalogFailed ==
  /\ pc = "raised" /\ caller = "catalog"
  /\ pc' = "crashed"
  /\ UNCHANGED <<envVars, fetchVars, loopVars, runVars, extracted, remote>>

RECURSIVE SkippedOf(_, _, _)
SkippedOf(filename, sk, i) ==
  IF i > Len(sk) THEN <<>>
  ELSE <<[filename |-> filename, key |-> sk[i].key, reason |-> sk[i].reason]>>
       \o SkippedOf(filename, sk, i + 1)

\* write_json, the print and all_skipped.extend that end the loop body
WriteFile ==
  /\ pc = "returned"
  /\ fs' = write_json(fs, FileName, target_data)
  /\ stdout' = Append(stdout, [line |-> "updated", filename |-> FileName, n |-> Len(updated)])
  /\ all_skipped' = all_skipped \o SkippedOf(FileName, skipped, 1)
  /\ fi' = fi + 1
  /\ pc' = IF fi = Len(specs) THEN "report" ELSE "load"
  /\ UNCHANGED <<envVars, fetchVars, loopVars, extracted, remote>>
  /\ UNCHANGED <<run, persisted1, sources, before>>

\* the report of the skipped categories, and main's last print
Report ==
  /\ pc = "report"
  /\ stdout' = (IF all_skipped # <<>>
                THEN Append(stdout, [line |-> "skipped", filename |-> "", n |-> Len(all_skipped)])
                ELSE stdout)
               \o <<[line |-> "done", filename |-> "", n |-> 0]>>
  /\ pc' = "done"
  /\ UNCHANGED <<envVars, fetchVars, loopVars, extracted, remote>>
  /\ UNCHANGED <<fs, run, persisted1, sources, fi, all_skipped, before>>

\* the process has ended; the program is started again on the same data_dir
SecondRun ==
  /\ pc \in {"done", "crashed"}
  /\ run = 1
  /\ run' = 2
  /\ persisted1' = fs
  /\ pc' = "load"
  /\ fi' = 1
  /\ all_skipped' = <<>> /\ stdout' = <<>> /\ sources' = <<>>
  /\ target_data' = EmptyDict /\ before' = EmptyDict
  /\ ci' = 1 /\ updated' = <<>> /\ skipped' = <<>>
  /\ url' = NoUrl /\ retries' = 0 /\ caller' = "none"
  /\ attempt' = 0 /\ calls' = 0 /\ last_error' = NoError /\ sleeps' = <<>>
  /\ wire' = NoWire /\ body' = NoBody /\ exc' = NoExc
  /\ UNCHANGED <<envVars, extracted, remote, fs>>

update_all_files ==
  \/ LoadLocal \/ LoadFallback \/ CatalogLoaded \/ CatalogMalformed \/ CatalogFailed
  \/ WriteFile \/ Report

\* ------------------------------------------------------------ extraction alone
ExtractTable ==
  /\ pc = "parse"
  /\ extracted' = parse_leaderboard_table(body)
  /\ pc' = "parsed"
  /\ UNCHANGED <<envVars, loopVars, runVars, remote>>
  /\ UNCHANGED <<url, retries, caller, attempt, calls, last_error, sleeps, wire, body, exc>>

\* ----------------------------------------------------------- specifications
GoodRowA == Row(4, TRUE, <<"a">>, <<Num(2), Word, Num(1)>>)
GoodRowB == Row(4, TRUE, <<"b">>, <<Num(1)>>)
BadRowB == Row(4, TRUE, <<"b">>, <<Tag(1), Word>>)
FewCellsRow == Row(3, TRUE, <<"a">>, <<>>)
NoAnchorRow == Row(4, FALSE, <<>>, <<Word>>)
BlankTitleRow == Row(4, TRUE, <<"&#32;">>, <<Word>>)

\* the pages of the refresh specification: two that extract, one without a
\* table marker, three that yield no record, one whose second row has no number
SitePages ==
  { Html(TRUE, <<GoodRowA, GoodRowB>>), Html(TRUE, <<NoAnchorRow, GoodRowB>>),
    Html(FALSE, <<GoodRowA>>),
    Html(TRUE, <<>>), Html(TRUE, <<FewCellsRow, NoAnchorRow>>), Html(TRUE, <<BlankTitleRow>>),
    Html(TRUE, <<GoodRowA, BadRowB>>) }

RunPages == { Html(TRUE, <<GoodRowA>>) }

Idle ==
  /\ remote = {} /\ wire = NoWire
  /\ run = 1 /\ persisted1 = [f \in FileNames |-> NoFile]
  /\ stdout = <<>> /\ sources = <<>> /\ all_skipped = <<>>
  /\ ci = 1 /\ updated = <<>> /\ skipped = <<>>
  /\ attempt = 0 /\ calls = 0 /\ last_error = NoError /\ sleeps = <<>>
  /\ exc = NoExc /\ extracted = NoResult

\* refresh_categories called on a document
Init ==
  /\ Idle
  /\ site = SitePages /\ faults = AllFaults /\ specs = FILE_SPECS(MaxCats)
  /\ fs = [f \in FileNames |-> NoFile]
  /\ fi \in 1..Len(FILE_SPECS(MaxCats))
  /\ target_data \in InitDocs(FILE_SPECS(MaxCats)[fi].category_map)
  /\ before = target_data
  /\ url = NoUrl /\ retries = 0 /\ caller = "none" /\ body = NoBody
  /\ pc = "loop"

Next == http_get_text \/ refresh_categories

Spec == Init /\ [][Next]_vars

\* http_get_text called with any retry budget
InitFetch ==
  /\ Idle
  /\ site = SitePages /\ faults = AllFaults /\ specs = FILE_SPECS(MaxCats)
  /\ fs = [f \in FileNames |-> NoFile]
  /\ fi = 1 /\ target_data = EmptyDict /\ before = EmptyDict
  /\ url \in {ArenaUrl(build_leaderboard_path("text", "overall", sc)) : sc \in {"True", "False"}}
  /\ retries \in 1..MaxRetries
  /\ caller = "direct" /\ body = NoBody
  /\ pc = "fetch"

SpecFetch == InitFetch /\ [][http_get_text]_vars

\* parse_leaderboard_table applied to a page
InitParse ==
  /\ Idle
  /\ site = {} /\ faults = {} /\ specs = FILE_SPECS(MaxCats)
  /\ fs = [f \in FileNames |-> NoFile]
  /\ fi = 1 /\ target_data = EmptyDict /\ before = EmptyDict
  /\ url = NoUrl /\ retries = 0 /\ caller = "none"
  /\ body \in Pages
  /\ pc = "parse"

SpecParse == InitParse /\ [][ExtractTable]_vars

FileOf(text) == [exists |-> TRUE, content |-> text]

\* the documents of the run specification: no key of the table yet, or all
RunDocs(category_map, full) ==
  <<[k |-> "legacy", v |-> OldEntry]>>
  \o DocOf(category_map, IF full THEN TableKeys(category_map) ELSE {}, OldEntry, 1)

\* which files data_dir holds: all but the first j of FILE_SPECS
LocalSets == {(j + 1)..Len(FILE_SPECS(0)) : j \in 0..Len(FILE_SPECS(0))}

RunDir(local, full) ==
  [f \in FileNames |->
     LET i == CHOOSE i \in 1..Len(FILE_SPECS(RunCats)) : FILE_SPECS(RunCats)[i].filename = f
     IN  IF i \in local
         THEN FileOf(json_dump(RunDocs(FILE_SPECS(RunCats)[i].category_map, full)))
         ELSE NoFile]

\* update_all_files run twice on a data directory, the source unchanged
InitRun ==
  /\ Idle
  /\ site = RunPages /\ faults = {"TimeoutError"} /\ specs = FILE_SPECS(RunCats)
  /\ fs \in {RunDir(local, full) : local \in LocalSets, full \in BOOLEAN}
  /\ fi = 1 /\ target_data = EmptyDict /\ before = EmptyDict
  /\ url = NoUrl /\ retries = 0 /\ caller = "none" /\ body = NoBody
  /\ pc = "load"

\* AttemptUncaught and CategorySkipped are left out: with the pages and faults
\* of InitRun they are never enabled (RunEnvironment states it)
NextRun ==
  \/ AttemptReturn \/ AttemptRetry \/ AttemptExhausted
  \/ NextCategory \/ CategoryUpdated \/ CategoryFetchFailed \/ RefreshReturn
  \/ update_all_files \/ SecondRun

RunEnvironment == ~ENABLED AttemptUncaught /\ ~ENABLED CategorySkipped

SpecRun == InitRun /\ [][NextRun]_vars

\* ------------------------------------------------------------------ claims
Entry(doc, key) ==
  IF DictHas(doc, key) THEN [present |-> TRUE, v |-> DictGet(doc, key)]
  ELSE [present |-> FALSE, v |-> EmptyDict]

SkippedKeys == {skipped[i].key : i \in 1..Len(skipped)}
UpdatedKeys == {updated[i] : i \in 1..Len(updated)}
ReasonOf(key) == skipped[CHOOSE i \in 1..Len(skipped) : skipped[i].key = key].reason

\* the URL refresh_categories requests for the j-th category of the table
UrlOf(j) ==
  ArenaUrl(build_leaderboard_path(specs[fi].modality, CategoryMap[j][2], specs[fi].style_control))

\* the text the j-th category's fetch returned, if it returned one
Fetched(j) == {r.body : r \in {x \in remote : x.url = UrlOf(j) /\ x.ok}}

\* C1: every category recorded as skipped, whatever failed (the fetch, the
\* table marker, a score cell, an empty table), has the entry it had when
\* refresh_categories was called, and is absent if it was absent
C1_FailurePreserves ==
  \A i \in 1..Len(skipped) :
    Entry(target_data, skipped[i].key) = Entry(before, skipped[i].key)

C1_Witness ==
  /\ pc = "returned"
  /\ updated # <<>>
  /\ \E i \in 1..Len(skipped) :
       /\ skipped[i].reason.msg = "Request failed after retries"
       /\ DictHas(before, skipped[i].key)
       /\ DictGet(target_data, skipped[i].key) = OldEntry

Pos(key) == CHOOSE j \in 1..Len(CategoryMap) : CategoryMap[j][1] = key

InTableOrder(keys) ==
  \A i, j \in 1..Len(keys) : i < j => Pos(keys[i]) < Pos(keys[j])

\* C2: every key of the table is processed once, in table order, and lands in
\* exactly one of updated and skipped; no failure ends the loop early; the
\* entry of an updated key is what its own page gave, and every other entry,
\* of a key in the table or not, is as it was when refresh_categories was called
C2_Isolation ==
  /\ Len(updated) + Len(skipped) = ci - 1
  /\ UpdatedKeys \cup SkippedKeys = {CategoryMap[j][1] : j \in 1..(ci - 1)}
  /\ UpdatedKeys \cap SkippedKeys = {}
  /\ Cardinality(UpdatedKeys) = Len(updated) /\ Cardinality(SkippedKeys) = Len(skipped)
  /\ InTableOrder(updated)
  /\ InTableOrder([i \in 1..Len(skipped) |-> skipped[i].key])
  /\ pc = "returned" => ci - 1 = Len(CategoryMap)
  /\ pc # "crashed"
  /\ (pc = "raised" /\ caller = "refresh") => ENABLED CategoryFetchFailed
  /\ \A k \in DictKeys(before) \cup DictKeys(target_data) :
       k \notin UpdatedKeys => Entry(target_data, k) = Entry(before, k)
  /\ \A j \in 1..(ci - 1) :
       CategoryMap[j][1] \in UpdatedKeys =>
         \E html \in Fetched(j) :
           Entry(target_data, CategoryMap[j][1]) =
             [present |-> TRUE, v |-> parse_leaderboard_table(html).value]

C2_Witness ==
  /\ pc = "returned"
  /\ Len(CategoryMap) >= 2
  /\ skipped # <<>> /\ skipped[1].key = CategoryMap[1][1]
  /\ skipped[1].reason.msg = "read failed"
  /\ updated = <<CategoryMap[2][1]>>
  /\ DictHas(before, "legacy")

\* C3 as stated: no fetch failure ends the run before all files are written
C3_Original == pc = "crashed" => exc.msg # "Request failed after retries"

FileIndices == 1..Len(specs)

\* C3 amended: a failure of a category never ends the run, and a run whose
\* documents all load writes all five files; the run ends early only while
\* loading a file that data_dir lacks (the fallback fetch failed on both
\* attempts, or returned text that is no JSON) or that does not parse, and
\* then the files before it are written and that file is not
C3_RunCompletes ==
  /\ pc = "crashed" =>
       /\ caller # "refresh"
       /\ Len(stdout) = fi - 1
       /\ \/ /\ caller = "catalog"
             /\ ~fs[FileName].exists
             /\ \/ exc = RequestFailed(CatalogRetries, CatalogUrl(FileName), last_error)
                \/ exc.type = "JSONDecodeError"
          \/ /\ caller = "none" /\ exc.type = "JSONDecodeError" /\ fs[FileName].exists
  /\ pc = "done" =>
       /\ fi = Len(specs) + 1
       /\ Len(sources) = Len(specs)
       /\ \A i \in FileIndices :
            /\ fs[specs[i].filename].exists
            /\ stdout[i].line = "updated" /\ stdout[i].filename = specs[i].filename
  /\ (pc = "raised" /\ caller = "refresh") => ENABLED CategoryFetchFailed

C3_Witness ==
  /\ pc = "done" /\ run = 1
  /\ \A i \in FileIndices : stdout[i].n = 0
  /\ \E i \in 1..Len(sources) : sources[i] = "catalog"
  /\ \E i \in 1..Len(sources) : sources[i] = "local"
  /\ Len(all_skipped) >= Len(specs)

\* C4: http_get_text with retries = n makes at most n requests, returns the
\* body of the first one that succeeds and then stops; after the k-th failed
\* request, k < n, it sleeps 1.2 * k, and it does not sleep after the n-th;
\* when the n-th fails too it raises once, naming n, the URL and the last error
C4_RetryBudget ==
  /\ calls <= retries
  /\ \A i \in 1..Len(sleeps) : sleeps[i] = BaseDelayTenths * i
  /\ pc = "fetch" => calls = attempt /\ Len(sleeps) = calls /\ calls < retries
  /\ pc = "got" =>
       /\ wire.kind = "response" /\ body = wire.body
       /\ Len(sleeps) = calls - 1
       /\ ~ENABLED http_get_text
  /\ (pc = "raised" /\ Caught(urlopen(wire).err)) =>
       /\ calls = retries
       /\ Len(sleeps) = retries - 1
       /\ last_error = urlopen(wire).err
       /\ exc = RequestFailed(retries, url, last_error)
       /\ ~ENABLED http_get_text

C4_Witness ==
  /\ pc = "raised" /\ retries = 3 /\ calls = 3
  /\ sleeps = <<BaseDelayTenths, 2 * BaseDelayTenths>>
  /\ last_error.type = "TimeoutError" /\ exc.cause = last_error

InFetch == pc \in {"fetch", "got", "raised"}

\* C5 as stated: a completed response, whatever its status, is returned at once
C5_Original ==
  (InFetch /\ wire.kind = "response") => (pc = "got" /\ body = wire.body)

\* C5 amended: a completed response is returned at once when its status is
\* 2xx; with any other status the opener raises HTTPError, which http_get_text
\* treats as a failed attempt: it sleeps and retries while attempts remain and
\* raises "Request failed" when the last one fails too, whatever body the
\* response carried, so the category is then skipped by the fetcher
C5_StatusDecides ==
  /\ (InFetch /\ wire.kind = "response" /\ wire.status = 200) =>
       (pc = "got" /\ body = wire.body)
  /\ (InFetch /\ wire.kind = "response" /\ wire.status # 200) =>
       /\ last_error = [type |-> "HTTPError", status |-> wire.status]
       /\ body = NoBody
       /\ \/ pc = "fetch" /\ calls < retries /\ Len(sleeps) = calls
          \/ pc = "raised" /\ calls = retries /\ exc = RequestFailed(retries, url, last_error)
  /\ \A i \in 1..Len(skipped) :
       skipped[i].reason.cause.type = "HTTPError" =>
         /\ skipped[i].reason.msg = "Request failed after retries"
         /\ skipped[i].reason.retries = DefaultRetries
         /\ Fetched(Pos(skipped[i].key)) = {}

C5_Witness ==
  /\ pc = "raised" /\ caller = "refresh" /\ calls = DefaultRetries
  /\ wire.kind = "response" /\ wire.status = 404
  /\ wire.body.table /\ parse_leaderboard_table(wire.body).raised = "none"

\* no row passes the three tests of the loop body
ZeroRecords(rows) ==
  \A i \in 1..Len(rows) :
    \/ rows[i].ncells < 4
    \/ ~rows[i].anchor
    \/ strip(unescape(rows[i].title)) = <<>>

\* C6: a fetched page with a table marker and no accepted row leaves its
\* category skipped and its entry as it was; no updated entry is empty
C6_EmptyTableSkipped ==
  /\ \A i \in 1..Len(updated) : DictGet(target_data, updated[i]) # EmptyDict
  /\ \A j \in 1..(ci - 1) : \A html \in Fetched(j) :
       (html.table /\ ZeroRecords(html.rows)) =>
         /\ CategoryMap[j][1] \in SkippedKeys
         /\ CategoryMap[j][1] \notin UpdatedKeys
         /\ ReasonOf(CategoryMap[j][1]).msg = "Parsed 0 models from leaderboard table."
         /\ Entry(target_data, CategoryMap[j][1]) = Entry(before, CategoryMap[j][1])

C6_Witness ==
  /\ pc = "returned"
  /\ \E j \in 1..(ci - 1) : \E html \in Fetched(j) :
       /\ html.table /\ ZeroRecords(html.rows) /\ Len(html.rows) = 2
       /\ DictHas(before, CategoryMap[j][1])

RecordOfRow(row) ==
  LET r == parse_rating_cell(strip_tags(row.score))
  IN  ScoreRecord(r.rating, r.uncertainty)

AcceptedRows(rows) == {i \in 1..Len(rows) : Accepted(rows[i])}

LastRowNamed(rows, name) ==
  CHOOSE i \in AcceptedRows(rows) :
    /\ model_name(rows[i]) = name
    /\ \A j \in AcceptedRows(rows) : model_name(rows[j]) = name => j <= i

\* C7: the mapping parse_leaderboard_table returns has one record for each
\* name among the accepted rows, the one built from the last row of that name
C7_LastRowWins ==
  (pc = "parsed" /\ extracted.raised = "none") =>
    LET names == {model_name(body.rows[i]) : i \in AcceptedRows(body.rows)} IN
    /\ DictKeys(extracted.value) = names
    /\ Len(extracted.value) = Cardinality(names)
    /\ \A n \in names :
         DictGet(extracted.value, n) = RecordOfRow(body.rows[LastRowNamed(body.rows, n)])

C7_Witness ==
  /\ pc = "parsed" /\ extracted.raised = "none"
  /\ Len(body.rows) = 2
  /\ body.rows[1].title = <<"a">> /\ body.rows[2].title = <<" ", "a">>
  /\ RecordOfRow(body.rows[1]) # RecordOfRow(body.rows[2])
  /\ Len(extracted.value) = 1

\* C8: every record parse_leaderboard_table returns has
\* rating_q025 <= rating <= rating_q975
C8_BoundInvariant ==
  (pc = "parsed" /\ extracted.raised = "none") =>
    \A i \in 1..Len(extracted.value) :
      /\ FLeq(extracted.value[i].v.rating_q025, extracted.value[i].v.rating)
      /\ FLeq(extracted.value[i].v.rating, extracted.value[i].v.rating_q975)

\* C9: with the source unchanged, the second run leaves every file of
\* data_dir with the content the first run left
C9_Idempotent == run = 2 => fs = persisted1

C9_Witness ==
  /\ run = 2 /\ pc = "done"
  /\ all_skipped # <<>>
  /\ \E i \in FileIndices : stdout[i].n > 0
  /\ \E i \in 1..Len(sources) : sources[i] = "local"
  /\ \E f \in FileNames : Len(fs[f].content) > 2

\* an accepted row whose fourth cell, markup removed, holds no numeric token
HasUnratedRow(rows) ==
  \E i \in 1..Len(rows) :
    /\ rows[i].ncells >= 4 /\ rows[i].anchor /\ strip(unescape(rows[i].title)) # <<>>
    /\ \A x \in 1..Len(rows[i].score) : rows[i].score[x].k # "num"

\* C10: a fetched page with an accepted row without a numeric token leaves
\* its category skipped and its entry as it was: no record of the page, also
\* of the rows before that row, reaches the document
C10_WholeCategoryAborted ==
  \A j \in 1..(ci - 1) : \A html \in Fetched(j) :
    (html.table /\ HasUnratedRow(html.rows)) =>
      /\ CategoryMap[j][1] \in SkippedKeys
      /\ CategoryMap[j][1] \notin UpdatedKeys
      /\ ReasonOf(CategoryMap[j][1]).msg = "No rating number parsed"
      /\ Entry(target_data, CategoryMap[j][1]) = Entry(before, CategoryMap[j][1])

C10_Witness ==
  /\ pc = "returned"
  /\ \E j \in 1..(ci - 1) : \E html \in Fetched(j) :
       /\ html.table /\ Len(html.rows) = 2
       /\ Accepted(html.rows[1]) /\ ~parse_rating_cell(strip_tags(html.rows[1].score)).raised
       /\ HasUnratedRow(html.rows)
       /\ DictHas(before, CategoryMap[j][1])

====
